---- MODULE Spec2Model ----
(***************************************************************************)
(* typer: a typing test generator (src/src/main.cpp, the second            *)
(* translation unit, lines 144-358).  One run of main(): argument parsing, *)
(* validation, dictionary load, the take/filter/sample/join pipeline, the  *)
(* timed read of the answer and the scoring.                               *)
(*                                                                         *)
(* Strings are sequences of one-character strings.  size_t arithmetic is   *)
(* modelled on naturals: every subtraction in the code is guarded by the   *)
(* comparison before it, so no value wraps.                                *)
(*                                                                         *)
(* Two specifications run the same program.  Spec ranges over the command  *)
(* lines and dictionary files, with little on standard input; SessionSpec  *)
(* fixes a command line that keeps the whole dictionary and ranges over    *)
(* what is typed and how long the two reads block.                         *)
(***************************************************************************)
EXTENDS Integers, Sequences, FiniteSets

\* ---------------------------------------------------------------- bounds
MaxAmount == 2
MaxTop == 3
MaxLength == 2
MaxDict == 3
MaxInput == 3
MaxWait == 1

\* ------------------------------------------------------------ characters
NUL == "NUL"
SPACE == " "
NEWLINE == "NL"
Letters == {"a", "b"}
Whitespace == {SPACE, NEWLINE}
AllChars == Letters \cup Whitespace \cup {NUL}

Min(a, b) == IF a < b THEN a ELSE b

SeqsUpTo(S, n) == UNION {[1..k -> S] : k \in 0..n}

\* words a dictionary line can hold (an empty line is an empty word)
Words == {<<>>, <<"a">>, <<"a", "b">>}
Dictionaries == SeqsUpTo(Words, MaxDict)
\* what may arrive on standard input before end of file
Inputs == SeqsUpTo(Letters \cup Whitespace, MaxInput)
FewInputs == {<<>>, <<"a", "b", NEWLINE>>}
\* how long the character read and the line read block
Delays == [char : 0..MaxWait, line : 0..MaxWait]
NoDelay == [char |-> 0, line |-> 0]
DefaultPath == "res/20k.txt"
OtherPath == "words.txt"
NoFile == {[status |-> "missing", lines |-> <<>>],
           [status |-> "unreadable", lines |-> <<>>]}
\* the file systems of the runs: the default path holds a dictionary, nothing,
\* or a file that does not open; the other path never holds a dictionary
FileSystems ==
    [res : NoFile \cup {[status |-> "readable", lines |-> d] : d \in Dictionaries},
     other : NoFile]

VARIABLES
    args_ok,                \* argv parses (program.parse_args does not throw)
    amount, top, min_length, max_length,
    dictionary_path_value,  \* value of --dictionary
    file,                   \* what is at that path: its status and its lines
    pc,                     \* position in main()
    exit_code,              \* -1 while running
    out,                    \* messages printed, in order
    trace,                  \* observable events, in order, with the clock
    dictionary,             \* std::optional: <<>> is nullopt, <<d>> holds d
    pool,                   \* dictionary | take(top) | filter(filter_function)
    cur, size_,             \* sample_view cursor: position in pool, words still wanted
    sample, picked,         \* sampled words and the pool positions they came from
    filtered,               \* the prompt string
    c, buffer,              \* first character read and the line read
    cin, cin_fail,          \* rest of standard input, failbit
    delay,                  \* time the two blocking reads will take
    now, start_time, end_time,
    errors

vars == <<args_ok, amount, top, min_length, max_length, dictionary_path_value,
          file, pc, exit_code, out, trace, dictionary, pool, cur, size_,
          sample, picked, filtered, c, buffer, cin, cin_fail, delay, now,
          start_time, end_time, errors>>

argVars == <<args_ok, amount, top, min_length, max_length,
             dictionary_path_value, file>>
sampleVars == <<pool, cur, size_, sample, picked>>
inputVars == <<c, buffer, cin, cin_fail>>
timeVars == <<delay, now, start_time, end_time>>

Event(e) == [ev |-> e, at |-> now]

\* the state main() starts in, whatever the command line and the files
InitRun ==
    /\ pc = "parse"
    /\ exit_code = -1
    /\ out = <<>>
    /\ trace = <<>>
    /\ dictionary = <<>>
    /\ pool = <<>>
    /\ cur = 1
    /\ size_ = 0
    /\ sample = <<>>
    /\ picked = <<>>
    /\ filtered = <<>>
    /\ c = NUL
    /\ buffer = <<>>
    /\ cin_fail = FALSE
    /\ now = 0
    /\ start_time = 0
    /\ end_time = 0
    /\ errors = 0

\* every command line and file system, little typed
Init ==
    /\ args_ok \in BOOLEAN
    /\ amount \in 0..MaxAmount
    /\ top \in 0..MaxTop
    /\ min_length \in 0..MaxLength
    /\ max_length \in 0..MaxLength
    /\ \E fs \in FileSystems :
         \/ dictionary_path_value = DefaultPath /\ file = fs.res
         \/ dictionary_path_value = OtherPath /\ file = fs.other
    /\ cin \in FewInputs
    /\ delay = NoDelay
    /\ InitRun

\* typer --min 0 --max 0 --amount n --top n on a dictionary of at most n
\* words: the prompt is the whole dictionary; every input and delay
InitSession ==
    /\ args_ok = TRUE
    /\ amount = MaxAmount
    /\ top = MaxAmount
    /\ min_length = 0
    /\ max_length = 0
    /\ dictionary_path_value = DefaultPath
    /\ file \in NoFile \cup {[status |-> "readable", lines |-> d] :
                                d \in SeqsUpTo(Words, MaxAmount)}
    /\ cin \in Inputs
    /\ delay \in Delays
    /\ InitRun

Exit(code, msg) ==
    /\ pc' = "done"
    /\ exit_code' = code
    /\ out' = Append(out, msg)

Msg(k, t) == [kind |-> k, text |-> t]

\* lines 249-255
ParseArgs ==
    /\ pc = "parse"
    /\ IF args_ok
         THEN /\ pc' = "validate"
              /\ UNCHANGED <<exit_code, out>>
         ELSE Exit(1, Msg("usage", <<>>))
    /\ UNCHANGED <<argVars, trace, dictionary, sampleVars, filtered, inputVars,
                   timeVars, errors>>

\* line 261
AmountRejected == amount = 0

\* line 269: the test in front of the "--top = 0" message
TopRejected == amount = 0

\* line 278
LengthsRejectedLoose == min_length > max_length + 1 /\ max_length # 0
LengthsRejected == min_length > max_length /\ max_length # 0

\* line 289
PathRejected == file.status = "missing"

\* lines 290-292
NotExistMessage == Msg("not_exist", dictionary_path_value)

\* lines 259-294
Validate ==
    /\ pc = "validate"
    /\ IF AmountRejected
         THEN Exit(1, Msg("amount_zero", <<>>))
       ELSE IF TopRejected
         THEN Exit(1, Msg("top_zero", <<>>))
       ELSE IF LengthsRejected
         THEN Exit(1, Msg("min_gt_max", <<>>))
       ELSE IF PathRejected
         THEN Exit(1, NotExistMessage)
       ELSE /\ pc' = "load"
            /\ UNCHANGED <<exit_code, out>>
    /\ UNCHANGED <<argVars, trace, dictionary, sampleVars, filtered, inputVars,
                   timeVars, errors>>

\* lines 168-190: nullopt when the stream does not open, else every line
read_dictionaryAlways == <<file.lines>>
read_dictionary == IF file.status # "readable" THEN <<>> ELSE <<file.lines>>

\* line 303: the call of read_dictionary, and the branch of and_then / or_else
Load ==
    /\ pc = "load"
    /\ dictionary' = read_dictionary
    /\ trace' = Append(trace, Event("load"))
    /\ pc' = IF dictionary' = <<>> THEN "or_else" ELSE "select"
    /\ UNCHANGED <<argVars, exit_code, out, sampleVars, filtered, inputVars,
                   timeVars, errors>>

\* lines 350-355
OrElse ==
    /\ pc = "or_else"
    /\ Exit(0, Msg("could_not_read", dictionary_path_value))
    /\ UNCHANGED <<argVars, trace, dictionary, sampleVars, filtered, inputVars,
                   timeVars, errors>>

\* line 308: ranges::views::take
Take(s, n) == SubSeq(s, 1, Min(n, Len(s)))

\* lines 296-299
filter_functionStrict(word) ==
    /\ (Len(word) < max_length \/ max_length = 0)
    /\ (Len(word) >= min_length \/ min_length = 0)
filter_function(word) ==
    /\ (Len(word) <= max_length \/ max_length = 0)
    /\ (Len(word) >= min_length \/ min_length = 0)

\* line 309: ranges::views::filter
RECURSIVE Filter(_)
Filter(s) ==
    IF s = <<>> THEN <<>>
    ELSE IF filter_function(Head(s)) THEN <<Head(s)>> \o Filter(Tail(s))
    ELSE Filter(Tail(s))

\* line 310: sample_view's cursor constructor clamps the wanted size to the
\* size of the population
SampleSizeUnclamped(n) == amount
SampleSize(n) == Min(amount, n)

\* lines 306-310: the views are built and the sample cursor is constructed
Select ==
    /\ pc = "select"
    /\ pool' = Filter(Take(dictionary[1], top))
    /\ size_' = SampleSize(Len(pool'))
    /\ cur' = 1
    /\ sample' = <<>>
    /\ picked' = <<>>
    /\ pc' = "sample"
    /\ UNCHANGED <<argVars, exit_code, out, trace, dictionary, filtered,
                   inputVars, timeVars, errors>>

\* line 310: sample_view's selection test, r drawn uniformly from 0..n-1
Taken(r, want) == r < want

\* line 310: one turn of sample_view's advance loop: with n words left in the
\* pool, the word at cur is taken when the draw is below the wanted size.
\* Drawing from an empty interval (n = 0) is undefined: the run is lost.
SampleStep ==
    /\ pc = "sample"
    /\ size_ > 0
    /\ LET n == Len(pool) - cur + 1 IN
         IF n <= 0
           THEN /\ pc' = "crashed"
                /\ UNCHANGED <<cur, size_, sample, picked>>
           ELSE \E r \in 0..(n - 1) :
                  /\ cur' = cur + 1
                  /\ pc' = pc
                  /\ IF Taken(r, size_)
                       THEN /\ sample' = Append(sample, pool[cur])
                            /\ picked' = Append(picked, cur)
                            /\ size_' = size_ - 1
                       ELSE UNCHANGED <<sample, picked, size_>>
    /\ UNCHANGED <<argVars, exit_code, out, trace, dictionary, pool, filtered,
                   inputVars, timeVars, errors>>

\* line 311: ranges::views::join(' ')
RECURSIVE Join(_)
Join(ws) ==
    IF ws = <<>> THEN <<>>
    ELSE IF Len(ws) = 1 THEN ws[1]
    ELSE ws[1] \o <<SPACE>> \o Join(Tail(ws))

\* lines 311-315: the sample is exhausted, the prompt is joined
SampleEnd ==
    /\ pc = "sample"
    /\ size_ <= 0
    /\ filtered' = Join(sample)
    /\ pc' = "display"
    /\ UNCHANGED <<argVars, exit_code, out, trace, dictionary, sampleVars,
                   inputVars, timeVars, errors>>

\* line 317
Display ==
    /\ pc = "display"
    /\ out' = Append(out, Msg("prompt", filtered))
    /\ trace' = Append(trace, Event("display"))
    /\ pc' = "read_char"
    /\ UNCHANGED <<argVars, exit_code, dictionary, sampleVars, filtered,
                   inputVars, timeVars, errors>>

\* operator>>(istream&, char&) skips leading whitespace
RECURSIVE SkipWs(_)
SkipWs(s) ==
    IF s = <<>> THEN <<>>
    ELSE IF Head(s) \in Whitespace THEN SkipWs(Tail(s))
    ELSE s

\* lines 319-320: at end of file nothing is stored into c, which was never
\* initialised
ReadChar ==
    /\ pc = "read_char"
    /\ LET s == SkipWs(cin) IN
         IF s = <<>>
           THEN /\ c' \in AllChars
                /\ cin' = <<>>
                /\ cin_fail' = TRUE
           ELSE /\ c' = Head(s)
                /\ cin' = Tail(s)
                /\ cin_fail' = FALSE
    /\ now' = now + delay.char
    /\ trace' = Append(trace, [ev |-> "char_read", at |-> now'])
    /\ pc' = "start_timer"
    /\ UNCHANGED <<argVars, exit_code, out, dictionary, sampleVars, filtered,
                   buffer, delay, start_time, end_time, errors>>

\* line 321 moved above line 320: the timer is anchored at the prompt
StartTimerAtDisplay ==
    /\ pc = "start_timer"
    /\ start_time' = trace[Len(trace) - 1].at
    /\ trace' = Append(trace, Event("timer_start"))
    /\ pc' = "read_line"
    /\ UNCHANGED <<argVars, exit_code, out, dictionary, sampleVars, filtered,
                   inputVars, delay, now, end_time, errors>>

\* line 321
StartTimer ==
    /\ pc = "start_timer"
    /\ start_time' = now
    /\ trace' = Append(trace, Event("timer_start"))
    /\ pc' = "read_line"
    /\ UNCHANGED <<argVars, exit_code, out, dictionary, sampleVars, filtered,
                   inputVars, delay, now, end_time, errors>>

\* std::getline: the characters before the first newline
RECURSIVE LineOf(_)
LineOf(s) ==
    IF s = <<>> \/ Head(s) = NEWLINE THEN <<>>
    ELSE <<Head(s)>> \o LineOf(Tail(s))

\* std::getline: what follows the line and its newline
AfterLine(s) ==
    LET n == Len(LineOf(s)) IN
      IF n = Len(s) THEN <<>> ELSE SubSeq(s, n + 2, Len(s))

\* line 322: nothing is read from a failed stream; a read that extracts
\* nothing sets failbit
ReadLine ==
    /\ pc = "read_line"
    /\ now' = now + delay.line
    /\ trace' = Append(trace, [ev |-> "line_read", at |-> now'])
    /\ IF cin_fail
         THEN UNCHANGED <<buffer, cin, cin_fail>>
         ELSE /\ buffer' = LineOf(cin)
              /\ cin' = AfterLine(cin)
              /\ cin_fail' = (cin = <<>>)
    /\ pc' = "stop_timer"
    /\ UNCHANGED <<argVars, exit_code, out, dictionary, sampleVars, filtered,
                   c, delay, start_time, end_time, errors>>

\* line 323
StopTimer ==
    /\ pc = "stop_timer"
    /\ end_time' = now
    /\ trace' = Append(trace, Event("timer_stop"))
    /\ pc' = "compare_first"
    /\ UNCHANGED <<argVars, exit_code, out, dictionary, sampleVars, filtered,
                   inputVars, delay, now, start_time, errors>>

\* lines 192-200: true when the characters differ
report_error(lhs, rhs) == lhs # rhs

\* lines 194, 197: the character is echoed, in red when it is an error
Echo(lhs, rhs) == [kind |-> "echo", text |-> <<rhs>>, red |-> report_error(lhs, rhs)]

BoolToSize(b) == IF b THEN 1 ELSE 0

\* std::basic_string::operator[]: s[size()] is the null character
At(s, i) == IF i = Len(s) THEN NUL ELSE s[i + 1]

\* lines 328-330
CompareFirst ==
    /\ pc = "compare_first"
    /\ errors' = 0 + BoolToSize(report_error(At(filtered, 0), c))
    /\ out' = Append(out, Echo(At(filtered, 0), c))
    /\ pc' = "length_term"
    /\ UNCHANGED <<argVars, exit_code, trace, dictionary, sampleVars, filtered,
                   inputVars, timeVars>>

\* lines 331-333: the value of the conditional expression for a prompt of
\* size fs and a line of size bs
LengthDiffGe(fs, bs) ==
    IF fs >= bs + 1 THEN fs - bs + 1 ELSE (bs + 1) - fs
LengthDiffOneSided(fs, bs) ==
    IF fs > bs + 1 THEN fs - bs + 1 ELSE 0
LengthDiff(fs, bs) ==
    IF fs > bs + 1 THEN fs - bs + 1 ELSE (bs + 1) - fs

\* lines 331-333
LengthTerm ==
    /\ pc = "length_term"
    /\ errors' = errors + LengthDiff(Len(filtered), Len(buffer))
    /\ pc' = "fold"
    /\ UNCHANGED <<argVars, exit_code, out, trace, dictionary, sampleVars,
                   filtered, inputVars, timeVars>>

\* line 336: ranges::views::drop
DropNone(s, n) == s
Drop(s, n) == SubSeq(s, n + 1, Len(s))

\* line 336: ranges::views::zip stops with the shorter range
Zip(a, b) == [i \in 1..Min(Len(a), Len(b)) |-> [first |-> a[i], second |-> b[i]]]

\* lines 337-340: the folded function
FoldStep(errs, element) ==
    errs + BoolToSize(report_error(element.first, element.second))

\* line 335: std::ranges::fold_left
RECURSIVE fold_left(_, _)
fold_left(r, init) ==
    IF r = <<>> THEN init ELSE fold_left(Tail(r), FoldStep(init, Head(r)))

\* lines 335-340: the compared pairs
Compared == Zip(Drop(filtered, 1), buffer)

\* lines 335-340
FoldRest ==
    /\ pc = "fold"
    /\ errors' = fold_left(Compared, errors)
    /\ out' = out \o [i \in 1..Len(Compared) |->
                        Echo(Compared[i].first, Compared[i].second)]
    /\ pc' = "report"
    /\ UNCHANGED <<argVars, exit_code, trace, dictionary, sampleVars, filtered,
                   inputVars, timeVars>>

\* lines 325-326, 342-348, 357
Report ==
    /\ pc = "report"
    /\ out' = out \o <<[kind |-> "errors", text |-> errors],
                       [kind |-> "duration", text |-> end_time - start_time]>>
    /\ trace' = Append(trace, Event("report"))
    /\ pc' = "done"
    /\ exit_code' = 0
    /\ UNCHANGED <<argVars, dictionary, sampleVars, filtered, inputVars,
                   timeVars, errors>>

Next == ParseArgs \/ Validate \/ Load \/ OrElse \/ Select \/ SampleStep
        \/ SampleEnd \/ Display \/ ReadChar \/ StartTimer \/ ReadLine
        \/ StopTimer \/ CompareFirst \/ LengthTerm \/ FoldRest \/ Report

Spec == Init /\ [][Next]_vars

SessionSpec == InitSession /\ [][Next]_vars


\* ------------------------------------------------------------------------
\* Properties

Abs(x) == IF x < 0 THEN -x ELSE x

Events == [i \in 1..Len(trace) |-> trace[i].ev]

\* the run went through the whole scoring session and reported
Scored == pc = "done" /\ trace # <<>> /\ trace[Len(trace)].ev = "report"

\* the total the run printed (line 342)
ReportedErrors == out[Len(out) - 1].text
ReportedDuration == out[Len(out)].text

\* what the validation step is specified to refuse
BadLengths == min_length > max_length /\ max_length # 0
Missing == file.status = "missing"

\* C1: a run whose arguments parse with --top equal to 0 (and a non-zero
\* --amount) ends with exit code 1 at the validation step: the dictionary is
\* never loaded, no prompt is displayed and nothing is read from standard
\* input.
C1_TopZeroRejected ==
    (args_ok /\ top = 0 /\ amount # 0) =>
        /\ trace = <<>>
        /\ pc \in {"parse", "validate", "done"}
        /\ (pc = "done" => exit_code = 1)

\* C2: the step that adds the length-difference term adds exactly
\* abs(len(Prompt) - (len(Typed) + 1)) to the error count, whichever of the
\* two is longer.
C2_LengthTermIsAbs ==
    [][(pc = "length_term" /\ pc' = "fold") =>
          errors' - errors = Abs(Len(filtered) - (Len(buffer) + 1))]_vars

\* C3: for a non-empty prompt the character comparisons contribute 1 when
\* the first character read differs from Prompt[0], plus one for each index
\* i in 1 .. min(len(Prompt), len(Typed) + 1) - 1 with Prompt[i] different
\* from Typed[i - 1]; nothing beyond the shorter of the two is compared.
\* (Prompt[i] is filtered[i + 1] and Typed[i - 1] is buffer[i] here.)
C3_ComparisonPart ==
    [][filtered # <<>> =>
         /\ (pc = "compare_first" /\ pc' = "length_term") =>
               errors' = (IF c # filtered[1] THEN 1 ELSE 0)
         /\ (pc = "fold" /\ pc' = "report") =>
               errors' - errors =
                 Cardinality({i \in 1..(Min(Len(filtered), Len(buffer) + 1) - 1) :
                                filtered[i + 1] # buffer[i]})]_vars

C3_Witness ==
    /\ pc = "report"
    /\ Len(filtered) >= 3
    /\ Len(buffer) >= 2
    /\ Len(buffer) + 1 # Len(filtered)
    /\ c # filtered[1]
    /\ filtered[2] = buffer[1]
    /\ filtered[3] # buffer[2]

\* C4: when the first character read is Prompt[0] and the typed line is the
\* rest of a non-empty prompt, the reported error count is 0.
C4_ExactMatchIsZero ==
    (Scored /\ filtered # <<>> /\ c = filtered[1] /\ buffer = Tail(filtered))
        => ReportedErrors = 0

C4_Witness ==
    /\ Scored
    /\ Len(filtered) = 3
    /\ filtered[2] = SPACE
    /\ c = filtered[1]
    /\ buffer = Tail(filtered)
    /\ ReportedErrors = 0

\* C5: with --amount 0, or min_length > max_length and max_length not 0, or
\* a dictionary path that does not exist, the run goes from validation
\* straight to exit code 1: no load, no prompt, no read of standard input;
\* when the missing path is the reason, the message holds the given path.
C5_ValidationStops ==
    (args_ok /\ (amount = 0 \/ BadLengths \/ Missing)) =>
        /\ trace = <<>>
        /\ pc \in {"parse", "validate", "done"}
        /\ (pc = "done" => exit_code = 1 /\ Len(out) = 1)
        /\ (pc = "done" /\ amount # 0 /\ ~BadLengths) =>
              (out[1].kind = "not_exist" /\ out[1].text = dictionary_path_value)

C5_Witness ==
    /\ pc = "done"
    /\ args_ok /\ amount # 0 /\ ~BadLengths /\ Missing
    /\ dictionary_path_value # DefaultPath
    /\ exit_code = 1
    /\ out = <<Msg("not_exist", dictionary_path_value)>>

\* the first min(top, |D|) words of the dictionary
HeadOf(D) == [i \in 1..Min(top, Len(D)) |-> D[i]]

\* the positions of the head whose word has an admissible length
Kept(D) ==
    {i \in 1..Min(top, Len(D)) :
        /\ (Len(D[i]) <= max_length \/ max_length = 0)
        /\ (Len(D[i]) >= min_length \/ min_length = 0)}

\* C6: the filtered pool is the subsequence, in dictionary order, of the
\* first min(top, |D|) words whose length L has (L <= max_length or
\* max_length = 0) and (L >= min_length or min_length = 0); a top above |D|
\* takes the whole dictionary, and min_length = max_length = 0 keeps the
\* head as it is.
C6_FilteredPool ==
    /\ pc # "crashed"
    /\ (dictionary # <<>> /\ pc # "select") =>
        LET D == dictionary[1] IN
          /\ Len(pool) = Cardinality(Kept(D))
          /\ \A k \in 1..Len(pool) :
                \E i \in Kept(D) :
                    /\ Cardinality({j \in Kept(D) : j < i}) = k - 1
                    /\ pool[k] = D[i]
          /\ (min_length = 0 /\ max_length = 0) => pool = HeadOf(D)
          /\ (top > Len(D) /\ min_length = 0 /\ max_length = 0) => pool = D

C6_Witness ==
    /\ pc = "sample"
    /\ dictionary # <<>>
    /\ Len(dictionary[1]) = 3
    /\ top = 2
    /\ pool = <<dictionary[1][2]>>
    /\ dictionary[1][1] # dictionary[1][2]
    /\ dictionary[1][3] = dictionary[1][2]

\* the sampling loop is over
Sampled == dictionary # <<>> /\ pc \notin {"select", "sample", "crashed"}

\* C7: whatever the draws, the sample has exactly amount words when
\* amount <= |P| and at most |P| words otherwise, every word comes from the
\* pool, no pool position is drawn twice, and the loop ends: it never runs
\* past the pool, and never wants more words than the pool has left.
C7_Sample ==
    /\ pc # "crashed"
    /\ pc = "sample" =>
          /\ cur \in 1..(Len(pool) + 1)
          /\ size_ <= Len(pool) - cur + 1
    /\ Sampled =>
          /\ amount <= Len(pool) => Len(sample) = amount
          /\ Len(sample) <= Len(pool)
          /\ Len(picked) = Len(sample)
          /\ \A k \in 1..Len(sample) :
                /\ picked[k] \in 1..Len(pool)
                /\ sample[k] = pool[picked[k]]
          /\ \A k, l \in 1..Len(picked) : k # l => picked[k] # picked[l]

C7_Witness ==
    /\ pc = "display"
    /\ amount = 2
    /\ Len(pool) = 3
    /\ picked = <<1, 3>>

\* C8: a dictionary file that exists but does not open gives an absent
\* dictionary: selection and scoring are skipped (no prompt, no read, no
\* error count, no time), the message names the path, and the run ends.
C8_UnreadableSkips ==
    (args_ok /\ amount # 0 /\ ~BadLengths /\ file.status = "unreadable") =>
        /\ dictionary = <<>>
        /\ pc \in {"parse", "validate", "load", "or_else", "done"}
        /\ \A i \in 1..Len(trace) : trace[i].ev = "load"
        /\ pc # "done" => out = <<>>
        /\ pc = "done" => out = <<Msg("could_not_read", dictionary_path_value)>>

C8_Witness ==
    /\ pc = "done"
    /\ file.status = "unreadable"
    /\ dictionary_path_value # DefaultPath
    /\ Events = <<"load">>
    /\ out = <<Msg("could_not_read", dictionary_path_value)>>

ScoringOrder ==
    <<"load", "display", "char_read", "timer_start", "line_read", "timer_stop",
      "report">>

\* C9: the events of a scoring session come in one order, each at most
\* once: prompt, single-character read, timer start, full-line read, timer
\* stop, report; the timer starts at the instant the character read ends
\* and stops at the instant the line read ends, so the reported time is the
\* time of the line read alone.
C9_SessionOrder ==
    /\ Len(trace) <= Len(ScoringOrder)
    /\ Events = SubSeq(ScoringOrder, 1, Len(trace))
    /\ Len(trace) >= 4 => start_time = trace[3].at
    /\ Len(trace) >= 6 => end_time = trace[5].at
    /\ Scored => ReportedDuration = trace[5].at - trace[3].at

C9_Witness ==
    /\ Scored
    /\ trace[3].at > 0
    /\ trace[5].at > trace[3].at
    /\ ReportedDuration = 1

\* C10: the error count is 0 only if the first character read followed by
\* the typed line is exactly the prompt, the empty prompt included.
C10_ZeroOnlyIfEqual ==
    (pc = "report" /\ errors = 0) => <<c>> \o buffer = filtered

C10_Witness ==
    /\ pc = "report"
    /\ filtered = <<>>
    /\ c = NUL
    /\ buffer = <<>>
    /\ errors = 1
====
